---- MODULE Spec2Model ----
(***************************************************************************)
(* URDFExporter (src/python/dtack/utils/urdf_exporter.py): one export      *)
(* call over a loaded YAML specification.                                  *)
(*                                                                         *)
(* Representation.  A Python str is a sequence of one-character strings.   *)
(* A Python dict is a function whose DOMAIN is the set of keys present.    *)
(* A number is [kind |-> "int", v |-> n] for the int n, or                 *)
(* [kind |-> "float", v |-> h] for the float h/100 (two decimals).         *)
(* A text is the sequence of its lines; a line is                          *)
(* [tag |-> the literal template of the f-string, attrs |-> the values     *)
(* interpolated into it, in order, as the str each one formats to].        *)
(***************************************************************************)
EXTENDS Integers, Sequences, FiniteSets, TLC

VARIABLES spec, pc, lines, idx, urdf_content, sink, writes, raised

vars == <<spec, pc, lines, idx, urdf_content, sink, writes, raised>>

\* Largest number of segments of an enumerated specification.
MaxSegments == 2

(***************************************************************************)
(* Values of the YAML document.                                            *)
(***************************************************************************)
I(n) == [kind |-> "int", v |-> n]

F(h) == [kind |-> "float", v |-> h]

Has(d, k) == k \in DOMAIN d

Drop(d, k) == [x \in DOMAIN d \ {k} |-> d[x]]

With(d, k, val) == [x \in DOMAIN d \cup {k} |-> IF x = k THEN val ELSE d[x]]

DigitChars == <<"0", "1", "2", "3", "4", "5", "6", "7", "8", "9">>

Digit(d) == DigitChars[d + 1]

RECURSIVE NatStr(_)
NatStr(n) == IF n < 10 THEN <<Digit(n)>> ELSE NatStr(n \div 10) \o <<Digit(n % 10)>>

\* str(int)
IntStr(n) == IF n < 0 THEN <<"-">> \o NatStr(-n) ELSE NatStr(n)

\* repr(float) of h/100: shortest decimal, at least one fractional digit.
FloatStr(h) ==
  LET a == IF h < 0 THEN -h ELSE h
      fr == a % 100
      frac == IF fr % 10 = 0 THEN <<Digit(fr \div 10)>>
              ELSE <<Digit(fr \div 10), Digit(fr % 10)>>
  IN (IF h < 0 THEN <<"-">> ELSE <<>>) \o NatStr(a \div 100) \o <<".">> \o frac

\* The text an f-string puts for {x}, x a number.
Str(x) == IF x.kind = "int" THEN IntStr(x.v) ELSE FloatStr(x.v)

\* x*2 on an int or a float
Times2(x) == [kind |-> x.kind, v |-> x.v * 2]

Sp == <<" ">>

Line(tag, attrs) == [tag |-> tag, attrs |-> attrs]

\* lines.append(x)
AppendLine(ls, l) == Append(ls, l)

ExtendFront(ls, new) == new \o ls

\* lines.extend(new)
Extend(ls, new) == ls \o new

Ok(ls) == [ok |-> TRUE, lines |-> ls]

KeyError == [ok |-> FALSE, lines |-> <<>>]

(***************************************************************************)
(* Element generators.                                                     *)
(***************************************************************************)
InertiaKeys == <<"ixx", "ixy", "ixz", "iyy", "iyz", "izz">>

EmptyDict == [x \in {} |-> 0]

DefaultBoxSize == <<F(10), F(10), F(10)>>

DefaultSphereSize == F(10)

DefaultCylinderSize == <<F(10), F(10)>>

DefaultRgba == <<F(50), F(50), F(50), F(100)>>

DefaultGeomType == "box"

InertiaSwapped(body) ==
  IF ~Has(body, "mass") \/ ~Has(body, "inertia") THEN KeyError
  ELSE IF \E i \in 1..Len(InertiaKeys) : ~Has(body.inertia, InertiaKeys[i]) THEN KeyError
  ELSE Ok(<<Line("inertial", <<>>),
            Line("mass", <<Str(body.mass)>>),
            Line("inertia", <<>>),
            Line("ixx", <<Str(body.inertia.ixx)>>),
            Line("ixy", <<Str(body.inertia.ixz)>>),
            Line("ixz", <<Str(body.inertia.ixy)>>),
            Line("iyy", <<Str(body.inertia.iyy)>>),
            Line("iyz", <<Str(body.inertia.iyz)>>),
            Line("izz", <<Str(body.inertia.izz)>>),
            Line("/inertial", <<>>)>>)

\* _generate_inertial: KeyError when mass, inertia or one of its entries is absent.
_generate_inertial(body) ==
  IF ~Has(body, "mass") \/ ~Has(body, "inertia") THEN KeyError
  ELSE IF \E i \in 1..Len(InertiaKeys) : ~Has(body.inertia, InertiaKeys[i]) THEN KeyError
  ELSE Ok(<<Line("inertial", <<>>),
            Line("mass", <<Str(body.mass)>>),
            Line("inertia", <<>>),
            Line("ixx", <<Str(body.inertia.ixx)>>),
            Line("ixy", <<Str(body.inertia.ixy)>>),
            Line("ixz", <<Str(body.inertia.ixz)>>),
            Line("iyy", <<Str(body.inertia.iyy)>>),
            Line("iyz", <<Str(body.inertia.iyz)>>),
            Line("izz", <<Str(body.inertia.izz)>>),
            Line("/inertial", <<>>)>>)

\* body.get("geometry", {})
GeomOfBody(body) == IF Has(body, "geometry") THEN body.geometry ELSE EmptyDict

\* geom.get("type", "box")
GeomType(geom) == IF Has(geom, "type") THEN geom.type ELSE DefaultGeomType

\* geom.get("size", default)
GeomSize(geom, default) == IF Has(geom, "size") THEN geom.size ELSE default

CylinderLineNoDouble(size) == Line("cylinder", <<Str(size[1]), Str(size[2])>>)

\* <cylinder radius="{size[0]}" length="{size[1]*2}"/>
CylinderLine(size) == Line("cylinder", <<Str(size[1]), Str(Times2(size[2]))>>)

GeometryLinesNoDefault(geom) ==
  LET t == IF Has(geom, "type") THEN geom.type ELSE "none" IN
  IF t = "box" THEN
    LET size == GeomSize(geom, DefaultBoxSize) IN
    <<Line("geometry", <<>>),
      Line("box", <<Str(size[1]) \o Sp \o Str(size[2]) \o Sp \o Str(size[3])>>),
      Line("/geometry", <<>>)>>
  ELSE IF t = "sphere" THEN
    <<Line("geometry", <<>>),
      Line("sphere", <<Str(GeomSize(geom, DefaultSphereSize))>>),
      Line("/geometry", <<>>)>>
  ELSE IF t \in {"cylinder", "capsule"} THEN
    <<Line("geometry", <<>>),
      CylinderLine(GeomSize(geom, DefaultCylinderSize)),
      Line("/geometry", <<>>)>>
  ELSE <<>>

\* The if/elif chain on geom_type; no branch for any other type.
GeometryLines(geom) ==
  LET t == GeomType(geom) IN
  IF t = "box" THEN
    LET size == GeomSize(geom, DefaultBoxSize) IN
    <<Line("geometry", <<>>),
      Line("box", <<Str(size[1]) \o Sp \o Str(size[2]) \o Sp \o Str(size[3])>>),
      Line("/geometry", <<>>)>>
  ELSE IF t = "sphere" THEN
    <<Line("geometry", <<>>),
      Line("sphere", <<Str(GeomSize(geom, DefaultSphereSize))>>),
      Line("/geometry", <<>>)>>
  ELSE IF t = "cylinder" THEN
    <<Line("geometry", <<>>),
      CylinderLine(GeomSize(geom, DefaultCylinderSize)),
      Line("/geometry", <<>>)>>
  ELSE IF t = "capsule" THEN
    <<Line("geometry", <<>>),
      CylinderLine(GeomSize(geom, DefaultCylinderSize)),
      Line("/geometry", <<>>)>>
  ELSE <<>>

MatPrefix == <<"m", "a", "t", "_">>

\* _generate_visual: KeyError when the body has no name.
_generate_visual(body) ==
  LET geom == GeomOfBody(body)
      rgba == IF Has(geom, "visual_rgba") THEN geom.visual_rgba ELSE DefaultRgba
  IN IF ~Has(body, "name") THEN KeyError
     ELSE Ok(<<Line("visual", <<>>)>>
             \o GeometryLines(geom)
             \o <<Line("material", <<MatPrefix \o body.name>>),
                  Line("color", <<Str(rgba[1]) \o Sp \o Str(rgba[2]) \o Sp
                                  \o Str(rgba[3]) \o Sp \o Str(rgba[4])>>),
                  Line("/material", <<>>),
                  Line("/visual", <<>>)>>)

\* <link name="{name}"> + inertial + visual + </link>
LinkLines(body) ==
  LET inertial == _generate_inertial(body)
      visual == _generate_visual(body)
  IN IF ~Has(body, "name") \/ ~inertial.ok \/ ~visual.ok THEN KeyError
     ELSE Ok(Extend(Extend(<<Line("link", <<body.name>>)>>, inertial.lines), visual.lines)
             \o <<Line("/link", <<>>)>>)

ToInfix == <<"_", "t", "o", "_">>

JointLinesLooseLimits(segment, parent_name) ==
  LET joint == segment.joint
      seg_name == segment.name
  IN <<Line("joint", <<parent_name \o ToInfix \o seg_name, joint.type>>),
       Line("parent", <<parent_name>>),
       Line("child", <<seg_name>>)>>
     \o (IF Has(joint, "axis")
         THEN <<Line("axis", <<Str(joint.axis[1]) \o Sp \o Str(joint.axis[2]) \o Sp
                               \o Str(joint.axis[3])>>)>>
         ELSE <<>>)
     \o (IF Has(joint, "limits") /\ Len(joint.limits.items) >= 2
         THEN <<Line("limit", <<Str(joint.limits.items[1]), Str(joint.limits.items[2])>>)>>
         ELSE <<>>)
     \o <<Line("/joint", <<>>)>>

\* The joint element; segment has name and joint.type.  A limits value is
\* [islist |-> isinstance(limits, list), items |-> its items (itself if a scalar)].
JointLines(segment, parent_name) ==
  LET joint == segment.joint
      seg_name == segment.name
  IN <<Line("joint", <<parent_name \o ToInfix \o seg_name, joint.type>>),
       Line("parent", <<parent_name>>),
       Line("child", <<seg_name>>)>>
     \o (IF Has(joint, "axis")
         THEN <<Line("axis", <<Str(joint.axis[1]) \o Sp \o Str(joint.axis[2]) \o Sp
                               \o Str(joint.axis[3])>>)>>
         ELSE <<>>)
     \o (IF Has(joint, "limits") /\ joint.limits.islist /\ Len(joint.limits.items) = 2
         THEN <<Line("limit", <<Str(joint.limits.items[1]), Str(joint.limits.items[2])>>)>>
         ELSE <<>>)
     \o <<Line("/joint", <<>>)>>

SegmentLinkFirst(segment, parent_name) ==
  IF ~Has(segment, "name") \/ ~Has(segment, "joint") THEN KeyError
  ELSE IF ~Has(segment.joint, "type") THEN KeyError
  ELSE LET link == LinkLines(segment) IN
       IF ~link.ok THEN KeyError
       ELSE Ok(Extend(link.lines, JointLines(segment, parent_name)))

\* _generate_segment_urdf: the joint, then the link.
_generate_segment_urdf(segment, parent_name) ==
  IF ~Has(segment, "name") \/ ~Has(segment, "joint") THEN KeyError
  ELSE IF ~Has(segment.joint, "type") THEN KeyError
  ELSE LET link == LinkLines(segment) IN
       IF ~link.ok THEN KeyError
       ELSE Ok(Extend(JointLines(segment, parent_name), link.lines))

(***************************************************************************)
(* The specifications enumerated: what yaml.safe_load can have returned.   *)
(***************************************************************************)
\* Body names; three of them hold the five reserved markup characters.
Names == {<<"b">>, <<"a", "&">>, <<"<", ">">>, <<"\"", "'">>}

RootNames == {<<"b">>, <<"a", "&">>}

RootName == <<"b", "a", "s", "e">>

SegName(i) == <<"s">> \o NatStr(i)

Revolute == <<"r", "e", "v", "o", "l", "u", "t", "e">>

Prismatic == <<"p", "r", "i", "s", "m", "a", "t", "i", "c">>

Fixed == <<"f", "i", "x", "e", "d">>

InertiaIds == {1, 2}

MassOf(m) == IF m = 1 THEN I(5) ELSE F(125)

InertiaOf(m) ==
  IF m = 1
  THEN [ixx |-> I(1), ixy |-> I(2), ixz |-> I(3), iyy |-> I(4), iyz |-> I(5), izz |-> I(6)]
  ELSE [ixx |-> F(150), ixy |-> F(-5), ixz |-> I(0), iyy |-> F(210), iyz |-> F(1),
        izz |-> F(1234)]

GeomIds == 1..12

SegGeomIds == {1, 3, 5, 6, 7, 9}

\* Geometry g = 1 is no geometry key at all.
GeomOf(g) ==
  CASE g = 2 -> EmptyDict
    [] g = 3 -> [type |-> "box", size |-> <<I(1), I(2), I(3)>>]
    [] g = 4 -> [type |-> "box"]
    [] g = 5 -> [type |-> "sphere", size |-> F(5)]
    [] g = 6 -> [type |-> "cylinder", size |-> <<F(5), F(20)>>]
    [] g = 7 -> [type |-> "capsule", size |-> <<F(5), F(20)>>]
    [] g = 8 -> [type |-> "cylinder", size |-> <<I(1), I(3)>>,
                 visual_rgba |-> <<I(1), I(0), I(0), I(1)>>]
    [] g = 9 -> [type |-> "capsule", size |-> <<I(2), F(125)>>,
                 visual_rgba |-> <<F(25), F(75), I(0), F(100)>>]
    [] g = 10 -> [type |-> "mesh", size |-> <<F(5), F(20)>>]
    [] g = 11 -> [size |-> <<F(30), F(20), F(10)>>, visual_rgba |-> <<I(0), I(0), I(1), I(1)>>]
    [] OTHER -> [type |-> "cylinder"]

Body(name, m, g) ==
  LET b == [name |-> name, mass |-> MassOf(m), inertia |-> InertiaOf(m)] IN
  IF g = 1 THEN b ELSE With(b, "geometry", GeomOf(g))

AxisIds == 0..2

LimitIds == 0..5

JointIds == 1..(Cardinality(AxisIds) * Cardinality(LimitIds))

LimitsOf(l) ==
  CASE l = 1 -> [islist |-> TRUE, items |-> <<F(-157), I(2)>>]
    [] l = 2 -> [islist |-> FALSE, items |-> <<F(157), F(314)>>]
    [] l = 3 -> [islist |-> TRUE, items |-> <<I(-1), I(0), I(1)>>]
    [] l = 4 -> [islist |-> TRUE, items |-> <<I(1)>>]
    [] OTHER -> [islist |-> TRUE, items |-> <<>>]

AxisOf(a) == IF a = 1 THEN <<I(0), I(0), I(1)>> ELSE <<F(50), F(-25), I(0)>>

\* Joint j: axis (j-1) % 3 (0 is no axis key), limits (j-1) \div 3 (0 is no limits key).
JointOf(j) ==
  LET a == (j - 1) % Cardinality(AxisIds)
      l == (j - 1) \div Cardinality(AxisIds)
      j0 == [type |-> IF a = 0 THEN Fixed ELSE IF a = 1 THEN Revolute ELSE Prismatic]
      j1 == IF a = 0 THEN j0 ELSE With(j0, "axis", AxisOf(a))
  IN IF l = 0 THEN j1 ELSE With(j1, "limits", LimitsOf(l))

DefaultJoint == JointOf(2)

Segment(name, parent, m, g, j) ==
  With(With(Body(name, m, g), "parent", parent), "joint", JointOf(j))

\* Names and declared parents vary; the payload is fixed.
InitTree ==
  \E rn \in RootNames, n \in 0..MaxSegments :
    \E sn \in [1..n -> Names], sp \in [1..n -> Names] :
      spec = [root |-> Body(rn, 1, 1),
              segments |-> [i \in 1..n |-> Segment(sn[i], sp[i], 1, 1, 2)]]

\* Mass, inertia and geometry vary; every segment hangs off the root.
InitBodies ==
  \E g \in GeomIds, m \in InertiaIds, n \in 0..MaxSegments :
    \E sg \in [1..n -> SegGeomIds] :
      spec = [root |-> Body(RootName, m, g),
              segments |-> [i \in 1..n |->
                 Segment(SegName(i), RootName, ((m + i) % 2) + 1, sg[i], 2)]]

\* Joints vary.
InitJoints ==
  \E n \in 1..MaxSegments :
    \E j \in [1..n -> JointIds] :
      spec = [root |-> Body(RootName, 1, 1),
              segments |-> [i \in 1..n |-> Segment(SegName(i), RootName, 1, 1, j[i])]]

FullSpec ==
  [root |-> Body(RootName, 2, 3),
   segments |-> <<Segment(SegName(1), RootName, 1, 6, 2),
                  Segment(SegName(2), SegName(1), 2, 1, 5)>>]

MissingIds == 1..18

\* FullSpec with one required key removed (1: the optional segments key).
MissingSpec(k) ==
  LET r == FullSpec.root
      s == FullSpec.segments
      seg(i, x) == [FullSpec EXCEPT !.segments[i] = x]
  IN CASE k = 1 -> Drop(FullSpec, "segments")
       [] k = 2 -> Drop(FullSpec, "root")
       [] k = 3 -> [FullSpec EXCEPT !.root = Drop(r, "name")]
       [] k = 4 -> [FullSpec EXCEPT !.root = Drop(r, "mass")]
       [] k = 5 -> [FullSpec EXCEPT !.root = Drop(r, "inertia")]
       [] k \in 6..11 ->
            [FullSpec EXCEPT !.root.inertia = Drop(r.inertia, InertiaKeys[k - 5])]
       [] k = 12 -> seg(1, Drop(s[1], "name"))
       [] k = 13 -> seg(1, Drop(s[1], "mass"))
       [] k = 14 -> seg(1, Drop(s[1], "joint"))
       [] k = 15 -> seg(1, [s[1] EXCEPT !.joint = Drop(s[1].joint, "type")])
       [] k = 16 -> seg(2, [s[2] EXCEPT !.inertia = Drop(s[2].inertia, "izz")])
       [] k = 17 -> seg(2, Drop(s[2], "mass"))
       [] OTHER -> seg(2, Drop(s[2], "name"))

InitMissing == \E k \in MissingIds : spec = MissingSpec(k)

(***************************************************************************)
(* export(output_path)                                                     *)
(***************************************************************************)
\* self.spec.get("segments", [])
Segments(s) == IF Has(s, "segments") THEN s.segments ELSE <<>>

Header == <<Line("?xml", <<>>), Line("robot", <<>>), Line("!--", <<>>)>>

\* The parent_name argument of the call in the loop.
ParentArg(s, i) == s.root.name

Init ==
  /\ InitTree \/ InitBodies \/ InitJoints \/ InitMissing
  /\ pc = "ready"
  /\ lines = <<>>
  /\ idx = 0
  /\ urdf_content = <<>>
  /\ sink = <<>>
  /\ writes = 0
  /\ raised = "none"

Raise(e) ==
  /\ pc' = "raised"
  /\ raised' = e
  /\ UNCHANGED <<spec, lines, idx, urdf_content, sink, writes>>

GenerateRootStreaming ==
  /\ pc = "ready"
  /\ IF ~Has(spec, "root") THEN Raise("KeyError")
     ELSE LET link == LinkLines(spec.root) IN
          IF ~link.ok THEN Raise("KeyError")
          ELSE /\ lines' = Extend(Header, link.lines)
               /\ idx' = 1
               /\ pc' = "segments"
               /\ sink' = lines'
               /\ UNCHANGED <<spec, urdf_content, writes, raised>>

\* export calls _generate_urdf: the header and the root link.
GenerateRoot ==
  /\ pc = "ready"
  /\ IF ~Has(spec, "root") THEN Raise("KeyError")
     ELSE LET link == LinkLines(spec.root) IN
          IF ~link.ok THEN Raise("KeyError")
          ELSE /\ lines' = Extend(Header, link.lines)
               /\ idx' = 1
               /\ pc' = "segments"
               /\ UNCHANGED <<spec, urdf_content, sink, writes, raised>>

\* One iteration of the loop over the segments.
GenerateSegment ==
  /\ pc = "segments"
  /\ idx <= Len(Segments(spec))
  /\ LET r == _generate_segment_urdf(Segments(spec)[idx], ParentArg(spec, idx)) IN
     IF ~r.ok THEN Raise("KeyError")
     ELSE /\ lines' = Extend(lines, r.lines)
          /\ idx' = idx + 1
          /\ UNCHANGED <<spec, pc, urdf_content, sink, writes, raised>>

\* The loop is over: </robot>, and the joined text is returned to export.
GenerateEnd ==
  /\ pc = "segments"
  /\ idx > Len(Segments(spec))
  /\ urdf_content' = AppendLine(lines, Line("/robot", <<>>))
  /\ pc' = "write"
  /\ UNCHANGED <<spec, lines, idx, sink, writes, raised>>

\* output.write_text(urdf_content)
WriteText ==
  /\ pc = "write"
  /\ sink' = urdf_content
  /\ writes' = writes + 1
  /\ pc' = "done"
  /\ UNCHANGED <<spec, lines, idx, urdf_content, raised>>

Next == GenerateRoot \/ GenerateSegment \/ GenerateEnd \/ WriteText

Spec == Init /\ [][Next]_vars

(***************************************************************************)
(* Reading a generated document.                                           *)
(***************************************************************************)
Generated == pc \in {"write", "done"}

Doc == urdf_content

IdxSet(doc, tag) == {i \in 1..Len(doc) : doc[i].tag = tag}

\* The k-th smallest element of a set of integers.
Nth(S, k) == CHOOSE i \in S : Cardinality({j \in S : j < i}) = k - 1

\* The lines of the k-th element <tag ...> ... </tag>.
Block(doc, tag, k) ==
  SubSeq(doc, Nth(IdxSet(doc, tag), k), Nth(IdxSet(doc, "/" \o tag), k))

WithTag(ls, tags) == SelectSeq(ls, LAMBDA l : l.tag \in tags)

TagsOf(ls) == [i \in 1..Len(ls) |-> ls[i].tag]

NSegments == Len(Segments(spec))

\* Body 1 is the root, body i + 1 is segment i.
BodyAt(k) == IF k = 1 THEN spec.root ELSE Segments(spec)[k - 1]

BodyNames == {BodyAt(k).name : k \in 1..(NSegments + 1)}

RequiredBodyKeys(b) ==
  /\ Has(b, "name") /\ Has(b, "mass") /\ Has(b, "inertia")
  /\ \A i \in 1..Len(InertiaKeys) : Has(b.inertia, InertiaKeys[i])

\* Every key the exporter reads unconditionally is present.
Complete ==
  /\ Has(spec, "root")
  /\ RequiredBodyKeys(spec.root)
  /\ \A i \in 1..NSegments :
       LET sg == Segments(spec)[i] IN
       RequiredBodyKeys(sg) /\ Has(sg, "joint") /\ Has(sg.joint, "type")

DeclaresParents == \A i \in 1..NSegments : Has(Segments(spec)[i], "parent")

UnknownParentAt(i) ==
  LET sg == Segments(spec) IN
  /\ sg[i].parent # spec.root.name
  /\ \A j \in 1..(i - 1) : sg[i].parent # sg[j].name

DuplicateNameAt(i) ==
  LET sg == Segments(spec) IN
  \/ sg[i].name = spec.root.name
  \/ \E j \in 1..(i - 1) : sg[i].name = sg[j].name

HasUnknownParent == Complete /\ DeclaresParents /\ \E i \in 1..NSegments : UnknownParentAt(i)

HasDuplicateName == Complete /\ \E i \in 1..NSegments : DuplicateNameAt(i)

\* One root, unique names, every declared parent the root or an earlier segment.
ValidSpec ==
  /\ Complete
  /\ DeclaresParents
  /\ \A i \in 1..NSegments : ~UnknownParentAt(i) /\ ~DuplicateNameAt(i)

LinkIdx(name) == {p \in IdxSet(Doc, "link") : Doc[p].attrs = <<name>>}

\* C1: in the generated document of a valid specification the first link
\* element is the root's, and each segment's link element comes strictly after
\* the link element of the parent the segment declares.
C1_ParentLinkFirst ==
  (Generated /\ ValidSpec) =>
    /\ Doc[Nth(IdxSet(Doc, "link"), 1)].attrs = <<spec.root.name>>
    /\ \A i \in 1..NSegments :
         LET sg == Segments(spec)[i] IN
         /\ LinkIdx(sg.name) # {}
         /\ LinkIdx(sg.parent) # {}
         /\ \A c \in LinkIdx(sg.name), p \in LinkIdx(sg.parent) : p < c

C1_Witness ==
  /\ Generated /\ ValidSpec /\ NSegments >= 2
  /\ Segments(spec)[2].parent = Segments(spec)[1].name

\* C2: a specification with a segment whose declared parent is neither the
\* root nor an earlier segment never gets its output written, and its export
\* ends in the UnknownParent error.
C2_UnknownParentFails ==
  HasUnknownParent =>
    /\ writes = 0
    /\ sink = <<>>
    /\ pc \in {"done", "raised"} => raised = "UnknownParent"

\* C3: in the generated document of a valid specification, segment i's joint
\* is named <parent>_to_<child> after the parent the segment declares, with
\* that parent as its parent link and the segment as its child link.
C3_JointUsesDeclaredParent ==
  (Generated /\ ValidSpec) =>
    \A i \in 1..NSegments :
      LET sg == Segments(spec)[i]
          jb == Block(Doc, "joint", i)
      IN /\ jb[1].attrs[1] = sg.parent \o ToInfix \o sg.name
         /\ WithTag(jb, {"parent"}) = <<Line("parent", <<sg.parent>>)>>
         /\ WithTag(jb, {"child"}) = <<Line("child", <<sg.name>>)>>

EscapeChar(c) ==
  CASE c = "&" -> <<"&", "a", "m", "p", ";">>
    [] c = "<" -> <<"&", "l", "t", ";">>
    [] c = ">" -> <<"&", "g", "t", ";">>
    [] c = "\"" -> <<"&", "q", "u", "o", "t", ";">>
    [] c = "'" -> <<"&", "a", "p", "o", "s", ";">>
    [] OTHER -> <<c>>

RECURSIVE Escape(_)
Escape(s) == IF s = <<>> THEN <<>> ELSE EscapeChar(Head(s)) \o Escape(Tail(s))

\* C4: every attribute of the generated document that embeds a body name
\* (link name, material name, joint name, parent link, child link) holds the
\* name with its reserved markup characters escaped.
C4_NamesEscaped ==
  (Generated /\ Complete) =>
    /\ \A k \in 1..(NSegments + 1) :
         LET lb == Block(Doc, "link", k) IN
         /\ lb[1].attrs = <<Escape(BodyAt(k).name)>>
         /\ WithTag(lb, {"material"})
              = <<Line("material", <<MatPrefix \o Escape(BodyAt(k).name)>>)>>
    /\ \A i \in 1..NSegments :
         LET sg == Segments(spec)[i]
             jb == Block(Doc, "joint", i)
         IN /\ \E p \in BodyNames :
                 /\ jb[1].attrs[1] = Escape(p) \o ToInfix \o Escape(sg.name)
                 /\ WithTag(jb, {"parent"}) = <<Line("parent", <<Escape(p)>>)>>
            /\ WithTag(jb, {"child"}) = <<Line("child", <<Escape(sg.name)>>)>>

\* C5: a specification in which a segment's name repeats the root's or an
\* earlier segment's never gets a document generated or written, and its
\* export ends in the DuplicateName error.
C5_DuplicateNameFails ==
  HasDuplicateName =>
    /\ ~Generated
    /\ writes = 0
    /\ pc = "raised" => raised = "DuplicateName"

OpenTags == {"robot", "link", "joint", "inertial", "visual", "geometry", "material"}

CloseTags == {"/" \o t : t \in OpenTags}

\* Every closing line closes the innermost open element, and none stays open.
RECURSIVE BalancedFrom(_, _, _)
BalancedFrom(doc, i, stack) ==
  IF i > Len(doc) THEN stack = <<>>
  ELSE LET t == doc[i].tag IN
       IF t \in OpenTags THEN BalancedFrom(doc, i + 1, <<t>> \o stack)
       ELSE IF t \in CloseTags
            THEN /\ stack # <<>>
                 /\ "/" \o Head(stack) = t
                 /\ BalancedFrom(doc, i + 1, Tail(stack))
            ELSE BalancedFrom(doc, i + 1, stack)

BodySkeleton == <<"link", "inertial", "/inertial", "visual", "/visual", "/link">>

RECURSIVE SegmentsSkeleton(_)
SegmentsSkeleton(n) ==
  IF n = 0 THEN <<>> ELSE SegmentsSkeleton(n - 1) \o <<"joint", "/joint">> \o BodySkeleton

SkeletonTags ==
  {"robot", "/robot", "link", "/link", "joint", "/joint",
   "inertial", "/inertial", "visual", "/visual"}

\* C6: the generated document of a specification with n segments is the
\* wrapper opening, the root's link element (one inertial, one visual block)
\* with no joint before it, then per segment in list order one joint element
\* immediately followed by that segment's link element, then the wrapper
\* closing: n + 1 link elements, n joint elements, every element closed.
C6_DocumentShape ==
  Generated =>
    /\ TagsOf(WithTag(Doc, SkeletonTags))
         = <<"robot">> \o BodySkeleton \o SegmentsSkeleton(NSegments) \o <<"/robot">>
    /\ Cardinality(IdxSet(Doc, "link")) = NSegments + 1
    /\ Cardinality(IdxSet(Doc, "joint")) = NSegments
    /\ Doc[Len(Doc)].tag = "/robot"
    /\ BalancedFrom(Doc, 1, <<>>)
    /\ \A k \in 1..(NSegments + 1) :
         Doc[Nth(IdxSet(Doc, "link"), k)].attrs = <<BodyAt(k).name>>
    /\ \A i \in 1..NSegments :
         /\ WithTag(Block(Doc, "joint", i), {"child"})
              = <<Line("child", <<Segments(spec)[i].name>>)>>
         /\ Nth(IdxSet(Doc, "/joint"), i) + 1 = Nth(IdxSet(Doc, "link"), i + 1)

C6_Witness == Generated /\ NSegments >= 2 /\ sink = Doc /\ writes = 1

IsCylindrical(b) ==
  /\ Has(b, "geometry") /\ Has(b.geometry, "type") /\ Has(b.geometry, "size")
  /\ b.geometry.type \in {"cylinder", "capsule"}

ShapeTags == {"box", "sphere", "cylinder"}

\* C7: a body whose geometry is a cylinder or a capsule of size [r, h] gets
\* one cylinder element of radius r and length 2*h, the same for both types;
\* size [0.05, 0.2] gives radius 0.05 and length 0.4.
C7_CylinderLengthDoubled ==
  Generated =>
    \A k \in 1..(NSegments + 1) :
      IsCylindrical(BodyAt(k)) =>
        LET size == BodyAt(k).geometry.size
            shapes == WithTag(Block(Doc, "link", k), ShapeTags)
        IN /\ shapes = <<Line("cylinder",
                              <<Str(size[1]), Str([kind |-> size[2].kind,
                                                   v |-> size[2].v + size[2].v])>>)>>
           /\ size = <<F(5), F(20)>> =>
                shapes[1].attrs = << <<"0", ".", "0", "5">>, <<"0", ".", "4">> >>

C7_Witness ==
  /\ Generated /\ NSegments >= 1
  /\ IsCylindrical(BodyAt(1)) /\ BodyAt(1).geometry.type = "cylinder"
  /\ IsCylindrical(BodyAt(2)) /\ BodyAt(2).geometry.type = "capsule"
  /\ BodyAt(2).geometry.size = <<F(5), F(20)>>

TenthBox == <<"0", ".", "1", " ", "0", ".", "1", " ", "0", ".", "1">>

MidGray ==
  <<"0", ".", "5", " ", "0", ".", "5", " ", "0", ".", "5", " ", "1", ".", "0">>

\* C8: a body that declares no geometry gets a visual block whose only
\* geometry is a box of size 0.1 0.1 0.1 and whose color is 0.5 0.5 0.5 1.0.
C8_DefaultBoxAndColor ==
  Generated =>
    \A k \in 1..(NSegments + 1) :
      ~Has(BodyAt(k), "geometry") =>
        LET vb == WithTag(Block(Doc, "link", k), ShapeTags \cup {"color"}) IN
        vb = <<Line("box", <<TenthBox>>), Line("color", <<MidGray>>)>>

C8_Witness ==
  /\ Generated /\ NSegments >= 1
  /\ ~Has(BodyAt(1), "geometry") /\ ~Has(BodyAt(2), "geometry")

InertialTags == {"inertial", "mass", "inertia", "/inertial"} \cup
                {InertiaKeys[i] : i \in 1..Len(InertiaKeys)}

\* C9: whatever its geometry, a body's inertial block carries its mass and its
\* six tensor entries, each once, under its own attribute, as given.
C9_InertialVerbatim ==
  Generated =>
    \A k \in 1..(NSegments + 1) :
      LET b == BodyAt(k) IN
      WithTag(Block(Doc, "link", k), InertialTags)
        = <<Line("inertial", <<>>), Line("mass", <<Str(b.mass)>>), Line("inertia", <<>>)>>
          \o [i \in 1..Len(InertiaKeys) |->
                Line(InertiaKeys[i], <<Str(b.inertia[InertiaKeys[i]])>>)]
          \o <<Line("/inertial", <<>>)>>

C9_Witness ==
  /\ Generated /\ NSegments >= 1
  /\ Has(BodyAt(1), "geometry") /\ GeomType(BodyAt(1).geometry) = "sphere"
  /\ BodyAt(1).inertia.ixy = F(-5)
  /\ IsCylindrical(BodyAt(2))

LimitsArePair(joint) ==
  Has(joint, "limits") /\ joint.limits.islist /\ Len(joint.limits.items) = 2

\* C10: a segment's joint element has an axis sub-element exactly when the
\* joint declares an axis (x y z as given), and a limit sub-element exactly
\* when its limits are a two-element list (lower, then upper); limits of any
\* other shape give no limit element and no error.
C10_AxisAndLimit ==
  /\ Complete => raised = "none"
  /\ Generated =>
       \A i \in 1..NSegments :
         LET joint == Segments(spec)[i].joint
             jb == Block(Doc, "joint", i)
         IN /\ WithTag(jb, {"axis"})
                 = IF Has(joint, "axis")
                   THEN <<Line("axis", <<Str(joint.axis[1]) \o Sp \o Str(joint.axis[2])
                                         \o Sp \o Str(joint.axis[3])>>)>>
                   ELSE <<>>
            /\ WithTag(jb, {"limit"})
                 = IF LimitsArePair(joint)
                   THEN <<Line("limit", <<Str(joint.limits.items[1]),
                                          Str(joint.limits.items[2])>>)>>
                   ELSE <<>>

C10_Witness ==
  /\ pc = "done" /\ NSegments >= 2
  /\ LET j1 == Segments(spec)[1].joint
         j2 == Segments(spec)[2].joint
     IN /\ Has(j1, "axis") /\ LimitsArePair(j1)
        /\ ~Has(j2, "axis") /\ Has(j2, "limits") /\ ~j2.limits.islist

\* What holds of the output sink in every state of an export call.
SinkWrittenOnceAtEnd ==
  /\ writes <= 1
  /\ pc # "done" => writes = 0 /\ sink = <<>>
  /\ pc = "done" =>
       /\ writes = 1
       /\ raised = "none"
       /\ sink = urdf_content
       /\ sink = AppendLine(lines, Line("/robot", <<>>))
       /\ Cardinality(IdxSet(sink, "/link")) = NSegments + 1
  /\ pc = "raised" => raised = "KeyError"
  /\ ~Complete =>
       /\ ~Generated
       /\ pc # "raised" => ENABLED Next

\* C11: the output sink is written at most once and only with the whole
\* generated document; an export whose specification lacks a required key
\* (name, mass, an inertia entry, joint.type, the root) goes on to an error,
\* never to a write, so the sink never holds a partial document; and no step
\* of the call changes the loaded specification.
C11_WriteOnceAfterGeneration == [](SinkWrittenOnceAtEnd) /\ [][spec' = spec]_vars

C11_Witness ==
  /\ pc = "raised" /\ raised = "KeyError"
  /\ ~Complete
  /\ Len(lines) > Len(Header)
  /\ idx >= 2
  /\ sink = <<>> /\ writes = 0

====
